---- MODULE Spec2Model ----
(***************************************************************************)
(* Model of the login/logout page of the QC dashboard                      *)
(* (src/pages/2-ورود و خروج.py, load_admin): the fetched queue_log rows,   *)
(* the "experts in line" list and the off-queue time per expert.           *)
(* A second group of variables holds what several browser sessions share   *)
(* and own: the session state kept by the login form, the script runs of   *)
(* the pages, and the fetch cache of st.cache_data.                        *)
(*                                                                         *)
(* Time is counted in hours.  A timestamp is an integer number of hours;   *)
(* its calendar date is the timestamp divided by Day.                      *)
(***************************************************************************)
EXTENDS Integers, Sequences, FiniteSets, TLC

\* ------------------------------------------------------------------ bounds

\* Longest fetched event list of the specification Spec.
MaxEvents == 3

\* Most daily breaks in the event lists of the specification SpecWeek.
MaxBreaks == 9

\* ------------------------------------------------------- program constants

\* pd.Timedelta(hours=4), the cutoff of one off-queue period.
MaxGap == 4

\* Hours in a day: Timedelta.components splits a duration into days and the
\* hours, minutes and seconds of the rest.
Day == 24

\* ------------------------------------------------------------ sample sets

\* VoIP ids of roster members (the agent column holds Local/<id>@from-queue).
Agents == {"101", "102"}

\* Two of the queues of CONFIG["queues"].
Queues == {"5100", "5200"}

\* The two event kinds the query keeps.
Events == {"ADDMEMBER", "REMOVEMEMBER"}

\* Timestamps of the fetched rows: three instants of one day, chosen around
\* the cutoff, and the start of the next day.
Times == {0, 1, MaxGap, Day}

\* Evaluation instants pd.to_datetime("today"): one on the first day, one on
\* the second.
Nows == {MaxGap, Day + 1}

\* A row of queue_log as the query selects it.
Row(a, q, e, t) == [agent |-> a, queuename |-> q, event |-> e, time |-> t]

RowsOf(members) ==
  {Row(a, q, e, t) : a \in members, q \in Queues, e \in Events, t \in Times}

\* A column value that is missing in the table (SQL NULL).
NULL == "NULL"

\* The time column of a row whose time is missing.
NoTime == -1

\* Rows of the table that lack one of the four columns the query reads.
MalformedRows(members) ==
  UNION {{Row(NULL, "5100", "REMOVEMEMBER", 1),
          Row(a, NULL, "REMOVEMEMBER", 1),
          Row(a, "5100", NULL, 1),
          Row(a, "5100", "ADDMEMBER", NoTime),
          Row(a, "5100", "REMOVEMEMBER", NoTime)} : a \in members}

\* A row's calendar date (.dt.date).
DateOf(t) == t \div Day

\* ------------------------------------------------------------------ state

VARIABLES
  filtered_members,   \* VoIP ids of the roster members the filters keep
  queue_log,          \* rows of the table queue_log, in insertion order
  now,                \* pd.to_datetime("today") of this run
  view,               \* what the page shows: form, empty, shown, error
  login_logout_df,    \* the fetched frame
  in_line_experts,    \* the set built at lines 151-166
  intervals,          \* every (out_time, in_time) pair the scan formed
  out_time_results,   \* the rows appended at lines 219-225
  displayed           \* the frame shown at line 235

vars == <<filtered_members, queue_log, now, view, login_logout_df,
          in_line_experts, intervals, out_time_results, displayed>>

VARIABLES
  session_state,      \* st.session_state of each browser session
  page_run,           \* what the last script run of each session did
  cache,              \* the store of st.cache_data, per cached function
  clock,              \* seconds on the timer of the cache
  history,            \* per cached function: the last fetch and the clears
  users_sheet,        \* the rows the Users sheet holds now
  form                \* a page's filter form, its selection and its query

appVars == <<session_state, page_run, cache, clock, history, users_sheet,
             form>>

allVars == <<vars, appVars>>

\* --------------------------------------------------------------- helpers

Range(s) == {s[i] : i \in 1..Len(s)}

\* Series.unique(): the distinct values in order of first appearance.
RECURSIVE Unique(_)
Unique(s) ==
  IF s = <<>> THEN <<>>
  ELSE LET front == Unique(SubSeq(s, 1, Len(s) - 1))
           last == s[Len(s)]
       IN IF last \in Range(front) THEN front ELSE Append(front, last)

AgentColumn(df) == [i \in 1..Len(df) |-> df[i].agent]
QueueColumn(df) == [i \in 1..Len(df) |-> df[i].queuename]

\* The frame without its k-th row.
DropRow(s, k) == SubSeq(s, 1, k - 1) \o SubSeq(s, k + 1, Len(s))

\* DataFrame.sort_values(by='time'): the rows in non-decreasing time.  The
\* default sort (quicksort) is not stable, so rows with equal time may come
\* out in any order: every ascending rearrangement is a possible result.
RECURSIVE SortValues(_)
SortValues(df) ==
  IF df = <<>> THEN {<<>>}
  ELSE LET firsts == {k \in 1..Len(df) :
                        \A m \in 1..Len(df) : df[k].time <= df[m].time}
       IN UNION {{<<df[k]>> \o rest : rest \in SortValues(DropRow(df, k))} :
                 k \in firsts}

\* ------------------------------------------------------------ the query

\* Faulty variant of Where: the condition on the time column is left out.
WhereNoTimeTest(r, members) ==
  /\ r.agent \in members
  /\ r.queuename \in Queues
  /\ r.event \in Events

\* The WHERE clause of login_logout_query: agent IN the selected VoIP ids,
\* queuename IN the queues, DATE(time) BETWEEN the two dates (the whole
\* sample window) and event one of the two kinds.  A comparison with a
\* missing value is not true, so a row that lacks a column is not selected.
Where(r, members) ==
  /\ r.agent \in members
  /\ r.queuename \in Queues
  /\ r.time # NoTime
  /\ r.event \in Events

\* pd.read_sql_query(query_formatted, engine): the rows of the table the
\* WHERE clause selects.
ReadSqlQuery(table, members) ==
  SelectSeq(table, LAMBDA r : Where(r, members))

\* ------------------------------------------------------ experts in line

\* login_logout_df[login_logout_df['time'].dt.date == today]
TodayLoginLogouts(df, today) ==
  SelectSeq(df, LAMBDA r : DateOf(r.time) = DateOf(today))

\* login_logout_df[login_logout_df['agent'] == voip_id]
AgentEvents(df, voip_id) == SelectSeq(df, LAMBDA r : r.agent = voip_id)

\* filtered_members[voip_id in voip_id column]['name'].size > 0
MemberFound(members, voip_id) == voip_id \in members

\* The frame the in-line loop takes an agent's latest event from.
InLineFrame(df, today) == df

\* member_events.iloc[0] after sort_values(ascending=False): a row of the
\* agent with the greatest time (any of them when several share it).
FirstRows(df, voip_id) ==
  LET member_events == AgentEvents(df, voip_id)
  IN {r \in Range(member_events) :
        \A r2 \in Range(member_events) : r2.time <= r.time}

\* The agents the in-line loop visits: today_login_logouts['agent'].unique().
InLineLoopAgents(df, today) ==
  Range(AgentColumn(TodayLoginLogouts(df, today)))

\* Every value in_line_experts can end with: an agent of the loop whose
\* member lookup succeeds is added when the first row of its descending
\* sort is ADDMEMBER; when the agent's latest rows share their time and
\* differ in event, either may be first.
InLineExperts(df, members, today) ==
  LET visited == {a \in InLineLoopAgents(df, today) : MemberFound(members, a)}
      first(a) == {r.event : r \in FirstRows(InLineFrame(df, today), a)}
      always == {a \in visited : first(a) = {"ADDMEMBER"}}
      maybe == {a \in visited : "ADDMEMBER" \in first(a)}
  IN {always \cup x : x \in SUBSET (maybe \ always)}

\* ---------------------------------------------------- out time per expert

\* Faulty variant of IsRemove: the test looks for the other event kind.
IsRemoveSwapped(row) == row.event = "ADDMEMBER"

\* queuename_events.iloc[i]['event'] == 'REMOVEMEMBER'
IsRemove(row) == row.event = "REMOVEMEMBER"

\* Faulty variant of QueuenameEvents: the queue filter is left out.
QueuenameEventsUnfiltered(member_events, queuename) == member_events

\* member_events[member_events['queuename'] == queuename]
QueuenameEvents(member_events, queuename) ==
  SelectSeq(member_events, LAMBDA r : r.queuename = queuename)

\* Faulty variant of NextAdd: the inner loop does not stop at the first
\* ADDMEMBER and ends with the last one.
NextAddLast(queuename_events, i) ==
  LET js == {j \in (i + 1)..Len(queuename_events) :
               queuename_events[j].event = "ADDMEMBER"}
  IN IF js = {} THEN 0 ELSE CHOOSE j \in js : \A k \in js : j >= k

\* The inner loop "for j in range(i+1, len)": the position of the next
\* ADDMEMBER after i, 0 when there is none (in_time stays None).
NextAdd(queuename_events, i) ==
  LET js == {j \in (i + 1)..Len(queuename_events) :
               queuename_events[j].event = "ADDMEMBER"}
  IN IF js = {} THEN 0 ELSE CHOOSE j \in js : \A k \in js : j <= k

\* Faulty variant of InTime: an open interval is closed at the queue's last
\* event instead of at the evaluation instant.
InTimeLastEvent(queuename_events, j, today) ==
  IF j = 0 THEN queuename_events[Len(queuename_events)].time
  ELSE queuename_events[j].time

\* in_time: the time of that ADDMEMBER, or pd.to_datetime("today").
InTime(queuename_events, j, today) ==
  IF j = 0 THEN today ELSE queuename_events[j].time

\* Faulty variant of WithinGap: the cutoff itself is let through.
WithinGapInclusive(d) == d <= MaxGap

\* if (in_time - out_time) < pd.Timedelta(hours=4)
WithinGap(d) == d < MaxGap

\* What one REMOVEMEMBER adds to total_out_time.
Added(out_time, in_time) ==
  IF WithinGap(in_time - out_time) THEN in_time - out_time ELSE 0

\* The body of the loop over i for one sorted queuename_events: one record
\* (the loop's i, j, out_time, in_time and what it adds) per REMOVEMEMBER.
QueueIntervals(queuename_events, today) ==
  {LET j == NextAdd(queuename_events, i)
       out_time == queuename_events[i].time
       in_time == InTime(queuename_events, j, today)
   IN [agent |-> queuename_events[i].agent,
       queuename |-> queuename_events[i].queuename,
       i |-> i, j |-> j,
       out_time |-> out_time, in_time |-> in_time,
       added |-> Added(out_time, in_time)] :
   i \in {k \in 1..Len(queuename_events) : IsRemove(queuename_events[k])}}

\* The records one queue of one agent can give: queuename_events is the
\* agent's rows of that queue after sort_values(by='time') (line 203 sorts
\* again what line 199 sorted), in any of the orders the sort can produce.
QueueOutcomes(member_events, queuename, today) ==
  {QueueIntervals(s, today) :
     s \in SortValues(QueuenameEvents(member_events, queuename))}

\* The loop over member_events['queuename'].unique(): one outcome per queue.
RECURSIVE MemberOutcomes(_, _, _)
MemberOutcomes(member_events, queuenames, today) ==
  IF queuenames = <<>> THEN {{}}
  ELSE {x \cup y :
          x \in QueueOutcomes(member_events, Head(queuenames), today),
          y \in MemberOutcomes(member_events, Tail(queuenames), today)}

\* Faulty variant of OutTimeLoopAgents: the loop runs over every selected
\* member, with or without fetched events.
RECURSIVE SeqOfSet(_)
SeqOfSet(S) ==
  IF S = {} THEN <<>>
  ELSE LET x == CHOOSE y \in S : TRUE IN <<x>> \o SeqOfSet(S \ {x})

OutTimeLoopMembers(df, members) == SeqOfSet(members)

\* The agents the out-time loop gives a row: login_logout_df['agent'].unique()
\* kept when the member lookup finds a name.
OutTimeLoopAgents(df, members) ==
  SelectSeq(Unique(AgentColumn(df)), LAMBDA a : MemberFound(members, a))

\* The loop over the agents: every set of records one run can form.
RECURSIVE AllOutcomes(_, _, _)
AllOutcomes(df, agents, today) ==
  IF agents = <<>> THEN {{}}
  ELSE LET member_events == AgentEvents(df, Head(agents))
       IN {x \cup y :
             x \in MemberOutcomes(member_events,
                                  Unique(QueueColumn(member_events)), today),
             y \in AllOutcomes(df, Tail(agents), today)}

\* total_out_time of a set of records.
RECURSIVE SumAdded(_)
SumAdded(ivs) ==
  IF ivs = {} THEN 0
  ELSE LET iv == CHOOSE x \in ivs : TRUE
       IN iv.added + SumAdded(ivs \ {iv})

IntervalsOf(ivs, voip_id) == {iv \in ivs : iv.agent = voip_id}

\* components.hours * 3600 + components.minutes * 60 + components.seconds:
\* the duration without its whole days.
ComponentSeconds(total_out_time) == total_out_time % Day

\* The value stored under 'total_out_time': the integer above when the
\* total is not negative, else the object pd.Timedelta(0).
Reported(total_out_time) ==
  IF total_out_time >= 0
    THEN [kind |-> "int", value |-> ComponentSeconds(total_out_time)]
    ELSE [kind |-> "Timedelta", value |-> 0]

\* out_time_results
OutTimeResults(ivs, agents) ==
  [n \in 1..Len(agents) |->
     [voip_id |-> agents[n],
      total_out_time |-> Reported(SumAdded(IntervalsOf(ivs, agents[n])))]]

\* Faulty variant of SortRowsDescending: the frame is sorted ascending.
RECURSIVE SortRowsAscending(_)
SortRowsAscending(rows) ==
  IF rows = <<>> THEN {<<>>}
  ELSE LET firsts == {k \in 1..Len(rows) :
                        \A m \in 1..Len(rows) :
                          rows[k].total_out_time.value <=
                            rows[m].total_out_time.value}
       IN UNION {{<<rows[k]>> \o rest :
                    rest \in SortRowsAscending(DropRow(rows, k))} :
                 k \in firsts}

\* sort_values(by=seconds, ascending=False) of the result frame.
RECURSIVE SortRowsDescending(_)
SortRowsDescending(rows) ==
  IF rows = <<>> THEN {<<>>}
  ELSE LET firsts == {k \in 1..Len(rows) :
                        \A m \in 1..Len(rows) :
                          rows[k].total_out_time.value >=
                            rows[m].total_out_time.value}
       IN UNION {{<<rows[k]>> \o rest :
                    rest \in SortRowsDescending(DropRow(rows, k))} :
                 k \in firsts}

\* pd.Timedelta(seconds=x) at line 233 accepts a number only: a row that
\* holds pd.Timedelta(0) raises TypeError before the frame is shown.
FormatRaises(rows) ==
  \E n \in 1..Len(rows) : rows[n].total_out_time.kind = "Timedelta"

\* ------------------------------------------- sessions, roster and pages

\* Browser sessions, each with its own st.session_state.
Sessions == {"s1", "s2"}

\* Rows of the Users sheet: one user per role of the switchers and one
\* with another role.
Users ==
  {[name |-> "Sara", password |-> "s4ra", role |-> "Admin"],
   [name |-> "Neda", password |-> "n3da", role |-> "QC"],
   [name |-> "Omid", password |-> "0mid", role |-> "Team Manager"],
   [name |-> "Reza", password |-> "r3za", role |-> "Supervisor"],
   [name |-> "Mina", password |-> "m1na", role |-> "Expert"],
   [name |-> "Iraj", password |-> "1raj", role |-> "Guest"]}

\* The Users sheet after an administrator gave one user a new password.
UsersEdited ==
  {IF u.name = "Iraj" THEN [u EXCEPT !.password = "ir4j"] ELSE u : u \in Users}

\* The contents the Users sheet can have.
Rosters == {Users, UsersEdited}

\* What the user who chose a name can type in the password field: a
\* password the sheet has or had for the name, or something else.
Passwords(name) ==
  {u.password : u \in {x \in UNION Rosters : x.name = name}} \cup {"wrong"}

\* What the user did to start a script run: nothing but opening the page
\* (none), or one of the buttons of the sidebar with the values of the form.
Widget(kind, name, password) ==
  [kind |-> kind, name |-> name, password |-> password]

NoWidget == Widget("none", "", "")

\* The scripts: main.py and the four pages.
Pages == {"home", "calls", "inout", "surveys", "missed"}

\* How a call of log_event can end: it returns (the row was appended, or
\* append_to_sheet caught its error), it raises an exception (line 26 of
\* logger.py, when the secret is missing), or it stops the script (st.stop()
\* in authenticate_google_sheets, which except Exception does not catch).
LogOutcomes == {"ok", "raised", "stopped"}

\* switcher.get(role, lambda: st.error(...)) of a page.
SwitcherGet(page, role) ==
  IF page = "surveys"
    THEN CASE role = "admin" -> "load_admin"
           [] role = "qc" -> "load_admin"
           [] role = "team manger" -> "load_team_manager"
           [] role = "expert" -> "load_expert"
           [] OTHER -> "invalid_role"
    ELSE CASE role = "Admin" -> "load_admin"
           [] role = "QC" -> "load_admin"
           [] role = "Team Manager" -> "load_team_manager"
           [] role = "Supervisor" -> "load_supervisor"
           [] role = "Expert" -> "load_expert"
           [] OTHER -> "invalid_role"

\* st.session_state of a session that ran no script yet.
FreshSession ==
  [users |-> {}, logged_in |-> "absent", userdata |-> {},
   refresh_trigger |-> FALSE]

\* No report: load_admin did not reach its sections.
NoReport ==
  [view |-> "none", in_line_experts |-> {}, out_time_results |-> <<>>,
   displayed |-> <<>>]

\* The record of a script run of a page before any of its steps.
IdleRun(page) ==
  [page |-> page, view |-> "none", pending |-> FALSE, sidebar |-> FALSE,
   queried |-> FALSE, phase |-> "idle", call |-> {}, frame |-> <<>>,
   now |-> NoTime, report |-> NoReport, disturbed |-> FALSE,
   widget |-> NoWidget]

\* Faulty variant of LoggedIn: the flag defaults to True when absent.
LoggedInByDefault(ss) == ss.logged_in # "False"

\* st.session_state.get('logged_in', False)
LoggedIn(ss) == ss.logged_in = "True"

\* Faulty variant of PasswordMatches: any password is accepted.
PasswordIgnored(password, row) == TRUE

\* str(password) == str(user_row.iloc[0]['password'])
PasswordMatches(password, row) == password = row.password

\* Faulty variant of ResetTrigger: the flag is left set.
KeepTrigger(ss) == ss

\* st.session_state.refresh_trigger = False (auth.py line 22)
ResetTrigger(ss) == [ss EXCEPT !.refresh_trigger = FALSE]

\* Faulty variant of SetLoggedIn: the roster row is not stored.
SetLoggedInOnly(ss, user_row) == [ss EXCEPT !.logged_in = "True"]

\* auth.py lines 34-35
SetLoggedIn(ss, user_row) ==
  [ss EXCEPT !.logged_in = "True", !.userdata = user_row]

\* auth.py lines 49-50
SetLoggedOut(ss) == [ss EXCEPT !.logged_in = "False", !.userdata = {}]

\* The roster the session holds (st.session_state.users).
RosterOf(ss) == UNION ss.users

\* authenticate() from its refresh_trigger test on: the new session state
\* and how the script goes on (continue, rerun, stop).
Authenticate(ss, widget, log) ==
  IF ss.refresh_trigger
    THEN [ss |-> ResetTrigger(ss), flow |-> "rerun"]
  ELSE IF ss.logged_in # "True"
    THEN IF widget.kind = "login"
           THEN LET user_row == {u \in RosterOf(ss) : u.name = widget.name}
                    match == \E u \in user_row :
                               PasswordMatches(widget.password, u)
                IN IF match
                     THEN [ss |-> SetLoggedIn(ss, user_row),
                           flow |-> CASE log = "ok" -> "rerun"
                                      [] log = "raised" -> "continue"
                                      [] OTHER -> "stop"]
                     ELSE [ss |-> ss,
                           flow |-> IF log = "stopped" THEN "stop"
                                    ELSE "continue"]
           ELSE [ss |-> ss, flow |-> "continue"]
  ELSE IF widget.kind = "logout"
    THEN CASE log = "ok" -> [ss |-> SetLoggedOut(ss), flow |-> "rerun"]
           [] log = "raised" -> [ss |-> ss, flow |-> "continue"]
           [] OTHER -> [ss |-> ss, flow |-> "stop"]
  ELSE [ss |-> ss, flow |-> "continue"]

\* The body of a script after render_sidebar(): the log-in warning, or the
\* function the switcher gives for the role (main.py has no switcher).
PageBody(page, ss) ==
  IF ~LoggedIn(ss) THEN "warning"
  ELSE IF page = "home" THEN "home"
  ELSE IF ss.userdata = {} THEN "crashed"
  ELSE LET row == CHOOSE u \in ss.userdata : TRUE
       IN SwitcherGet(page, row.role)

\* ------------------------------------------------------- the fetch cache

\* ttl=600 of @st.cache_data, in seconds.
TTL == 600

\* Most ticks of the cache timer in one behaviour; a tick is half the TTL.
MaxTicks == 2

\* Most rows of the table in the specification SpecFetch.
MaxRows == 1

\* The functions decorated with @st.cache_data(ttl=600).
Fns == {"load_sheet", "execute_query"}

\* Faulty variant of Valid: the entry never expires.
ValidForever(e, t) == TRUE

\* An entry stored at e.at is served while the timer is below e.at + ttl.
Valid(e, t) == t - e.at < TTL

\* The entry a call of fn is served from, as a set (empty: a miss).
Lookup(fn) == {e \in cache[fn] : Valid(e, clock)}

\* The record of one call of a cached function: whether it contacted the
\* source, how that went, the age of the result it returned, and what had
\* happened before it (a fetch less than ttl seconds ago, a clear since the
\* last fetch).
CallRecord(fn, contacted, db_failed, escaped, served_at) ==
  [fn |-> fn, contacted |-> contacted, db_failed |-> db_failed,
   escaped |-> escaped, age |-> clock - served_at,
   prior_recent |-> \E t \in history[fn].last : clock - t < TTL,
   prior_cleared |-> history[fn].cleared,
   prior_failed |-> history[fn].failed]

\* Faulty variant of Cacheable: the result of a failed fetch is not stored.
CacheableOnSuccess(failed) == ~failed

\* st.cache_data stores whatever the function returns, the empty frame of
\* the except branch included.
Cacheable(failed) == TRUE

\* The store and the history after fn fetched value from its source and
\* returned it (failed: the value is the empty frame of the handler).
Stored(fn, value, failed) ==
  /\ cache' = IF Cacheable(failed)
                THEN [cache EXCEPT ![fn] = {[at |-> clock, value |-> value]}]
                ELSE cache
  /\ history' = [history EXCEPT
                   ![fn] = [last |-> {clock}, cleared |-> FALSE,
                            failed |-> failed]]

\* Every report load_admin can show for a fetched frame.
Reports(df, members, today) ==
  IF df = <<>>
    THEN {[view |-> "empty", in_line_experts |-> {},
           out_time_results |-> <<>>, displayed |-> <<>>]}
    ELSE LET agents == OutTimeLoopAgents(df, members)
         IN UNION {
              LET rows == OutTimeResults(ivs, agents)
              IN {[view |-> IF FormatRaises(rows) THEN "error" ELSE "shown",
                   in_line_experts |-> x,
                   out_time_results |-> rows,
                   displayed |-> d] :
                  x \in InLineExperts(df, members, today),
                  d \in IF FormatRaises(rows) THEN {<<>>}
                        ELSE SortRowsDescending(rows)} :
              ivs \in AllOutcomes(df, agents, today)}

\* Faulty variant of FrameOf: the sections read the frame from the shared
\* cache again instead of keeping the one execute_query returned.
FrameFromCache(s) ==
  IF cache["execute_query"] = {} THEN <<>>
  ELSE (CHOOSE e \in cache["execute_query"] : TRUE).value

\* login_logout_df of the run of session s.
FrameOf(s) == page_run[s].frame

\* Rows the table gets in the specification SpecFetch.
SampleRows == {Row("101", "5100", "REMOVEMEMBER", 1)}

\* ------------------------------------------------------- session actions

\* One run of the script of a page: the roster is loaded when the session
\* holds none (through the cache), authenticate() runs in the sidebar, and
\* unless it reruns or stops the script the body of the page follows.
ScriptRun(s, page, widget) ==
  LET ss == session_state[s]
      loads == ss.users = {}
      hit == Lookup("load_sheet")
      contact == loads /\ hit = {}
      call == IF ~loads THEN {}
              ELSE {CallRecord("load_sheet", contact, FALSE, FALSE,
                               IF contact THEN clock
                               ELSE (CHOOSE e \in hit : TRUE).at)}
      users == IF ~loads THEN ss.users
               ELSE IF contact THEN {users_sheet}
               ELSE {(CHOOSE e \in hit : TRUE).value}
  IN \E log \in LogOutcomes :
       LET auth == Authenticate([ss EXCEPT !.users = users], widget, log)
           body == CASE auth.flow = "continue" -> PageBody(page, auth.ss)
                     [] auth.flow = "stop" -> "stopped"
                     [] OTHER -> "none"
       IN /\ session_state' = [session_state EXCEPT ![s] = auth.ss]
          /\ page_run' =
               [page_run EXCEPT
                  ![s] = [IdleRun(page) EXCEPT
                            !.view = body,
                            !.pending = (auth.flow = "rerun"),
                            !.sidebar = (auth.flow = "continue"),
                            !.call = call,
                            !.widget = widget]]
          /\ IF contact THEN Stored("load_sheet", users_sheet, FALSE)
             ELSE UNCHANGED <<cache, history>>
          /\ UNCHANGED <<clock, users_sheet, form, vars>>

\* No script of the session is running or queued.
AtRest(s) == ~page_run[s].pending /\ page_run[s].phase # "fetched"

\* The user opens a page (or reloads it).
Open(s, page) ==
  /\ AtRest(s)
  /\ ScriptRun(s, page, NoWidget)

\* The user presses the login button of the form in the sidebar.
Login(s, name, password) ==
  /\ AtRest(s)
  /\ page_run[s].sidebar
  /\ ~LoggedIn(session_state[s])
  /\ ScriptRun(s, page_run[s].page,
               Widget("login", name, password))

\* The user presses the logout button.
Logout(s) ==
  /\ AtRest(s)
  /\ page_run[s].sidebar
  /\ LoggedIn(session_state[s])
  /\ ScriptRun(s, page_run[s].page, Widget("logout", "", ""))

\* Faulty variant of RefreshData: the roster of the session is not put
\* back after the cache was cleared.
RefreshDataDropsUsers(ss) ==
  [ss EXCEPT !.users = {}, !.refresh_trigger = TRUE]

\* What refresh_data does to the session state: users and internal_numbers
\* are read, and written back as they were, and the trigger is set.
RefreshData(ss) == [ss EXCEPT !.refresh_trigger = TRUE]

\* The user presses the refresh button: the callback refresh_data runs and
\* a script run is queued, whose output will replace that of the last run.
PressRefresh(s) ==
  /\ AtRest(s)
  /\ page_run[s].sidebar
  /\ LoggedIn(session_state[s])
  /\ cache' = [fn \in Fns |-> {}]
  /\ history' = [fn \in Fns |-> [history[fn] EXCEPT !.cleared = TRUE]]
  /\ session_state' = [session_state EXCEPT ![s] = RefreshData(@)]
  /\ page_run' =
       [t \in Sessions |->
          IF t = s THEN [IdleRun(page_run[t].page) EXCEPT !.pending = TRUE]
          ELSE IF page_run[t].phase = "fetched"
            THEN [page_run[t] EXCEPT !.disturbed = TRUE]
          ELSE page_run[t]]
  /\ UNCHANGED <<clock, users_sheet, form, vars>>

\* The queued script run (after st.rerun() or a callback).
ScriptRerun(s) ==
  /\ page_run[s].pending
  /\ ScriptRun(s, page_run[s].page, NoWidget)

\* The user submits the filter form of load_admin.  On the login/logout
\* page the run goes as far as execute_query: the log entry of line 87,
\* then the cached call, which is served from the store or contacts the
\* database; a database error is handled by logging it and returning an
\* empty frame.  The other pages run their own queries.
Submit(s) ==
  LET run == page_run[s]
      hit == Lookup("execute_query")
      ended(body, call) ==
        [IdleRun(run.page) EXCEPT !.view = body, !.sidebar = TRUE,
                                  !.queried = (call # {}), !.call = call]
      fetched(frame, today, call) ==
        [IdleRun(run.page) EXCEPT !.view = "load_admin", !.sidebar = TRUE,
                                  !.queried = TRUE, !.phase = "fetched",
                                  !.call = call, !.frame = frame,
                                  !.now = today]
  IN
  /\ AtRest(s)
  /\ run.view = "load_admin"
  /\ IF run.page # "inout"
       THEN /\ page_run' = [page_run EXCEPT ![s].queried = TRUE]
            /\ UNCHANGED <<cache, history>>
       ELSE \E log \in LogOutcomes :
              IF log # "ok"
                THEN /\ page_run' =
                          [page_run EXCEPT
                             ![s] = ended(IF log = "raised" THEN "crashed"
                                          ELSE "stopped", {})]
                     /\ UNCHANGED <<cache, history>>
              ELSE IF hit # {}
                THEN LET e == CHOOSE x \in hit : TRUE
                     IN /\ page_run' =
                             [page_run EXCEPT
                                ![s] = fetched(e.value, now,
                                         {CallRecord("execute_query", FALSE,
                                                     FALSE, FALSE, e.at)})]
                        /\ UNCHANGED <<cache, history>>
              ELSE \E db_ok \in BOOLEAN, errlog \in LogOutcomes :
                     LET value == IF db_ok
                                    THEN ReadSqlQuery(queue_log,
                                                      filtered_members)
                                    ELSE <<>>
                         escaped == ~db_ok /\ errlog # "ok"
                         call == {CallRecord("execute_query", TRUE, ~db_ok,
                                             escaped, clock)}
                     IN IF escaped
                          THEN /\ page_run' =
                                    [page_run EXCEPT
                                       ![s] = ended(IF errlog = "raised"
                                                      THEN "crashed"
                                                    ELSE "stopped", call)]
                               /\ UNCHANGED <<cache, history>>
                          ELSE /\ page_run' =
                                    [page_run EXCEPT
                                       ![s] = fetched(value, now, call)]
                               /\ Stored("execute_query", value, ~db_ok)
  /\ UNCHANGED <<session_state, clock, users_sheet, form, vars>>

\* The sections of load_admin after execute_query returned; the call is
\* over.
Compute(s) ==
  /\ page_run[s].phase = "fetched"
  /\ \E r \in Reports(FrameOf(s), filtered_members, page_run[s].now) :
       page_run' = [page_run EXCEPT ![s].phase = "done", ![s].report = r,
                                    ![s].call = {}]
  /\ UNCHANGED <<session_state, cache, clock, history, users_sheet, form, vars>>

\* Time passes on the timer of the cache.
Tick ==
  /\ clock < MaxTicks * (TTL \div 2)
  /\ clock' = clock + TTL \div 2
  /\ UNCHANGED <<session_state, page_run, cache, history, users_sheet, form, vars>>

\* An administrator edits the Users sheet.
SheetEdit ==
  /\ \E roster \in Rosters \ {users_sheet} : users_sheet' = roster
  /\ UNCHANGED <<session_state, page_run, cache, clock, history, form, vars>>

\* The PBX writes a row while sessions are at work.
TableInsert ==
  /\ Len(queue_log) < MaxRows
  /\ \E r \in SampleRows :
       /\ \A k \in 1..Len(queue_log) : queue_log[k].time <= r.time
       /\ queue_log' = Append(queue_log, r)
  /\ UNCHANGED <<filtered_members, now, view, login_logout_df,
                 in_line_experts, intervals, out_time_results, displayed>>
  /\ UNCHANGED appVars

\* The sessions that act in the specification SpecAuth; the others stay as
\* they started.
Visitors == {"s1"}

NextAuth ==
  \E s \in Visitors :
    \/ \E page \in Pages : Open(s, page)
    \/ \E name \in {u.name : u \in Users} :
         \E password \in Passwords(name) : Login(s, name, password)
    \/ Logout(s)
    \/ PressRefresh(s)
    \/ ScriptRerun(s)
    \/ Submit(s)
    \/ Compute(s)
    \/ SheetEdit

NextFetch ==
  \/ \E s \in Sessions :
       \/ Open(s, "inout")
       \/ \E u \in {x \in Users : x.role = "QC"} : Login(s, u.name, u.password)
       \/ PressRefresh(s)
       \/ ScriptRerun(s)
       \/ Submit(s)
       \/ Compute(s)
  \/ Tick
  \/ TableInsert

\* The specifications of the report follow one request and keep no record
\* of sessions or of the cache.
NoSessions ==
  /\ session_state = <<>>
  /\ page_run = <<>>
  /\ cache = <<>>
  /\ clock = 0
  /\ history = <<>>
  /\ users_sheet = <<>>
  /\ form = <<>>

\* No session has run a script, nothing is cached.
AppIdle ==
  /\ session_state = [s \in Sessions |-> FreshSession]
  /\ page_run = [s \in Sessions |-> IdleRun("home")]
  /\ cache = [fn \in Fns |-> {}]
  /\ clock = 0
  /\ history = [fn \in Fns |->
                  [last |-> {}, cleared |-> FALSE, failed |-> FALSE]]
  /\ users_sheet = Users
  /\ form = <<>>

\* ------------------------------------------- the filter form and the query

\* Text is a sequence of its characters here, so that split, strip and the
\* tuple of a string are computed as Python computes them.

\* Most rows of the lead-call frame in the specification SpecForm.
MaxLeads == 1

\* Latest day a date of the form can be, counted from the earliest.
MaxDays == 1

\* x.split('|'): the pieces between the bars, at least one.
RECURSIVE SplitBar(_)
SplitBar(x) ==
  IF \A i \in 1..Len(x) : x[i] # "|" THEN <<x>>
  ELSE LET k == CHOOSE i \in 1..Len(x) :
                  x[i] = "|" /\ \A j \in 1..(i - 1) : x[j] # "|"
       IN <<SubSeq(x, 1, k - 1)>> \o SplitBar(SubSeq(x, k + 1, Len(x)))

\* y.strip(): y without its leading and trailing blanks.
RECURSIVE Strip(_)
Strip(y) ==
  IF y # <<>> /\ Head(y) = " " THEN Strip(Tail(y))
  ELSE IF y # <<>> /\ y[Len(y)] = " " THEN Strip(SubSeq(y, 1, Len(y) - 1))
  ELSE y

\* [y.strip() for y in x.split('|')]
Entries(x) == [i \in 1..Len(SplitBar(x)) |-> Strip(SplitBar(x)[i])]

\* [item for sublist in lists for item in sublist]
RECURSIVE Flatten(_)
Flatten(lists) ==
  IF lists = <<>> THEN <<>> ELSE Head(lists) \o Flatten(Tail(lists))

\* The rows of st.session_state.users the form filters: a member of two
\* teams with one VoIP id, a member with a VoIP name and no id, a member
\* with two ids, and a member with neither name nor id.
UsersFrame ==
  << [name |-> "Ali", team |-> <<"A", "|", "B">>,
      voip_name |-> <<"-">>, voip_id |-> <<"1", "0", "1">>],
     [name |-> "Bita", team |-> <<"A">>,
      voip_name |-> <<"b", "i", "t", "a">>, voip_id |-> <<"-">>],
     [name |-> "Cyrus", team |-> <<"A", " ", "|", " ", "C">>,
      voip_name |-> <<"-">>, voip_id |-> <<"7", "|", "8">>],
     [name |-> "Dara", team |-> <<"C">>,
      voip_name |-> <<"-">>, voip_id |-> <<"-">>] >>

\* The option 'All' of a selector.
All == <<"All">>

\* The options of the team selector: every trimmed entry of a team field,
\* and 'All'.
teams ==
  UNION {Range(Entries(UsersFrame[i].team)) : i \in 1..Len(UsersFrame)}
    \cup {All}

\* The options of the expert selector.
experts == {UsersFrame[i].name : i \in 1..Len(UsersFrame)} \cup {"All"}

\* The pages with a filter form.
FormPages == Pages \ {"home"}

\* The team filter of a page: the login/logout page looks the team up among
\* the trimmed entries of the field, the other pages compare the whole field.
TeamKept(page, member, team) ==
  IF page = "inout" THEN team \in Range(Entries(member.team))
  ELSE member.team = team

\* filtered_members after the team and the expert filter (the shift selector
\* is left at 'All').
FilterMembers(page, team, expert) ==
  LET Kept(member) ==
        /\ team # All => TeamKept(page, member, team)
        /\ expert # "All" => member.name = expert
  IN SelectSeq(UsersFrame, Kept)

\* The flat list of the trimmed entries of a VoIP column, '-' giving none.
VoipColumn(column) ==
  Flatten([i \in 1..Len(column) |->
             IF column[i] = <<"-">> THEN <<>> ELSE Entries(column[i])])

voip_names(members) ==
  VoipColumn([i \in 1..Len(members) |-> members[i].voip_name])

voip_ids(members) ==
  VoipColumn([i \in 1..Len(members) |-> members[i].voip_id])

\* set(voip_names + voip_ids), listed in order of first appearance; the
\* order of a Python set is not specified and nothing below depends on it.
MembersVoip(members) == Unique(voip_names(members) \o voip_ids(members))

\* f'Local/{voip_id}@from-queue'
Local(voip_id) == <<"Local/">> \o voip_id \o <<"@from-queue">>

\* tuple(s) of a string s: one element per character.
Characters(s) == [i \in 1..Len(s) |-> <<s[i]>>]

\* The agent list a page puts in its query, or the error it raises.  The
\* login/logout page maps the VoIP ids and indexes the first entry when there
\* are not several; the calls and the surveys page turn a set of one
\* identifier into that string and then into a tuple; the missed-calls page
\* takes the tuple of the set.
AgentList(page, members) ==
  LET voip_ids_map == [i \in 1..Len(voip_ids(members)) |->
                         Local(voip_ids(members)[i])]
      single == Len(MembersVoip(members)) = 1
  IN IF page = "inout"
       THEN IF Len(voip_ids_map) > 1
              THEN [error |-> "", agents |-> voip_ids_map]
            ELSE IF voip_ids_map = <<>>
              THEN [error |-> "IndexError", agents |-> <<>>]
            ELSE [error |-> "", agents |-> <<voip_ids_map[1]>>]
     ELSE IF page \in {"calls", "surveys"} /\ single
       THEN [error |-> "", agents |-> Characters(MembersVoip(members)[1])]
     ELSE [error |-> "", agents |-> MembersVoip(members)]

\* round(n / d, 0) for d > 0: the nearest integer, a tie going to the even one.
Round(n, d) ==
  LET q == n \div d
      r == n % d
  IN IF 2 * r < d THEN q
     ELSE IF 2 * r > d THEN q + 1
     ELSE IF q % 2 = 0 THEN q ELSE q + 1

\* The form as the page shows it, before it is submitted.
BlankForm(page, team, expert, start_date, end_date, leads, valid) ==
  [page |-> page, team |-> team, expert |-> expert,
   start_date |-> start_date, end_date |-> end_date,
   leads |-> leads, valid |-> valid,
   phase |-> "form", filtered_members |-> <<>>, agents |-> <<>>,
   error |-> "", average |-> 0]

\* The forms a user can submit: a page, a team and an expert of the
\* selectors, two dates in order, the rows of the lead-call frame the
\* database holds for them and how many of these are distinct numbers
\* with a call of more than 60 seconds.
Forms ==
  {BlankForm(page, team, expert, dates[1], dates[2], lead[1], lead[2]) :
     page \in FormPages, team \in teams, expert \in experts,
     dates \in {d \in (0..MaxDays) \X (0..MaxDays) : d[1] <= d[2]},
     lead \in {l \in (0..MaxLeads) \X (0..MaxLeads) : l[2] <= l[1]}}

\* The submitted form is filtered.
ApplyFilters ==
  /\ form.phase = "form"
  /\ form' = [form EXCEPT
                !.phase = "filtered",
                !.filtered_members =
                  FilterMembers(form.page, form.team, form.expert)]
  /\ UNCHANGED <<session_state, page_run, cache, clock, history,
                 users_sheet, vars>>

\* The page stops with the no-expert warning, or builds the agent list of
\* its query.
BuildQuery ==
  /\ form.phase = "filtered"
  /\ LET built == AgentList(form.page, form.filtered_members)
     IN form' =
          IF MembersVoip(form.filtered_members) = <<>>
            THEN [form EXCEPT !.phase = "warning"]
          ELSE IF built.error # ""
            THEN [form EXCEPT !.phase = "raised", !.error = built.error]
          ELSE [form EXCEPT !.phase = "query", !.agents = built.agents]
  /\ UNCHANGED <<session_state, page_run, cache, clock, history,
                 users_sheet, vars>>

\* The lead-call metrics of the calls page, once the frames before them
\* were not empty: the page stops when there is no lead call, and divides
\* the distinct valid numbers by the days between the two dates.
LeadMetrics ==
  /\ form.page = "calls"
  /\ form.phase = "query"
  /\ LET days == form.end_date - form.start_date
     IN form' =
          IF form.leads = 0 THEN [form EXCEPT !.phase = "no_leads"]
          ELSE IF days = 0
            THEN [form EXCEPT !.phase = "raised",
                              !.error = "ZeroDivisionError"]
          ELSE [form EXCEPT !.phase = "metrics",
                            !.average = Round(form.valid, days)]
  /\ UNCHANGED <<session_state, page_run, cache, clock, history,
                 users_sheet, vars>>

NextForm == ApplyFilters \/ BuildQuery \/ LeadMetrics

\* ---------------------------------------------------------------- actions

Cleared ==
  /\ in_line_experts' = {}
  /\ intervals' = {}
  /\ out_time_results' = <<>>
  /\ displayed' = <<>>

\* load_admin with the form submitted and an empty fetched frame: the
\* warning of lines 147-149, and nothing else.
LoadAdminEmpty ==
  /\ view = "form"
  /\ ReadSqlQuery(queue_log, filtered_members) = <<>>
  /\ login_logout_df' = ReadSqlQuery(queue_log, filtered_members)
  /\ view' = "empty"
  /\ Cleared
  /\ UNCHANGED <<filtered_members, queue_log, now>>
  /\ UNCHANGED appVars

\* load_admin with the form submitted and rows fetched: the in-line list,
\* the off-queue scan, the result rows and their display.
LoadAdmin ==
  LET df == ReadSqlQuery(queue_log, filtered_members)
  IN
  /\ view = "form"
  /\ df # <<>>
  /\ login_logout_df' = df
  /\ in_line_experts' \in InLineExperts(df, filtered_members, now)
  /\ \E ivs \in AllOutcomes(df, OutTimeLoopAgents(df, filtered_members),
                            now) :
       LET agents == OutTimeLoopAgents(df, filtered_members)
           rows == OutTimeResults(ivs, agents)
       IN /\ intervals' = ivs
          /\ out_time_results' = rows
          /\ IF FormatRaises(rows)
               THEN /\ displayed' = <<>>
                    /\ view' = "error"
               ELSE /\ displayed' \in SortRowsDescending(rows)
                    /\ view' = "shown"
  /\ UNCHANGED <<filtered_members, queue_log, now>>
  /\ UNCHANGED appVars

\* Any later interaction reruns the script: the form is shown again and
\* nothing of the last report is kept.
Rerun ==
  /\ view # "form"
  /\ view' = "form"
  /\ login_logout_df' = <<>>
  /\ Cleared
  /\ UNCHANGED <<filtered_members, queue_log, now>>
  /\ UNCHANGED appVars

\* The PBX writes one more row that the query matches.  queue_log is an
\* append-only log, so its rows are in non-decreasing time.
QueueLogAppend ==
  /\ view = "form"
  /\ Len(queue_log) < MaxEvents
  /\ \E r \in RowsOf(filtered_members) :
       /\ \A k \in 1..Len(queue_log) : queue_log[k].time <= r.time
       /\ queue_log' = Append(queue_log, r)
  /\ UNCHANGED <<filtered_members, now, view, login_logout_df,
                 in_line_experts, intervals, out_time_results, displayed>>
  /\ UNCHANGED appVars

\* The PBX writes a row that lacks a column.
QueueLogAppendMalformed ==
  /\ view = "form"
  /\ Len(queue_log) < MaxEvents
  /\ \E r \in MalformedRows(filtered_members) :
       /\ \A k \in 1..Len(queue_log) :
            r.time = NoTime \/ queue_log[k].time <= r.time
       /\ queue_log' = Append(queue_log, r)
  /\ UNCHANGED <<filtered_members, now, view, login_logout_df,
                 in_line_experts, intervals, out_time_results, displayed>>
  /\ UNCHANGED appVars

Next == QueueLogAppend \/ LoadAdminEmpty \/ LoadAdmin \/ Rerun

NextTable == Next \/ QueueLogAppendMalformed

\* ------------------------------------------------------------------ Init

Fresh ==
  /\ view = "form"
  /\ login_logout_df = <<>>
  /\ in_line_experts = {}
  /\ intervals = {}
  /\ out_time_results = <<>>
  /\ displayed = <<>>

Init ==
  /\ filtered_members \in (SUBSET Agents) \ {{}}
  /\ queue_log = <<>>
  /\ now \in Nows
  /\ Fresh
  /\ NoSessions

Spec == Init /\ [][Next]_vars

\* A week of regular breaks: agent a leaves queue q once a day at the same
\* hour and rejoins d hours later, k days in a row; the report is made after
\* the last of these days.
WeekLog(a, q, k, d) ==
  [n \in 1..(2 * k) |->
     IF n % 2 = 1
       THEN Row(a, q, "REMOVEMEMBER", Day * ((n - 1) \div 2))
       ELSE Row(a, q, "ADDMEMBER", Day * ((n - 1) \div 2) + d)]

InitWeek ==
  /\ filtered_members \in (SUBSET Agents) \ {{}}
  /\ \E a \in filtered_members, q \in Queues, k \in 0..MaxBreaks,
        d \in 1..MaxGap :
       queue_log = WeekLog(a, q, k, d)
  /\ now = Day * (MaxBreaks + 1)
  /\ Fresh
  /\ NoSessions

SpecWeek == InitWeek /\ [][Next]_vars

\* The expert filter names one expert, and the table also holds rows that
\* lack a column.
InitTable ==
  /\ Init
  /\ Cardinality(filtered_members) = 1

SpecTable == InitTable /\ [][NextTable]_vars

\* The filters are left at 'All': every expert of the roster is selected.
InitAll ==
  /\ Init
  /\ filtered_members = Agents

SpecAll == InitAll /\ [][Next]_vars

\* Users opening pages, logging in and out: both sessions start without
\* having run a script, the table is empty.
InitAuth ==
  /\ filtered_members = Agents
  /\ queue_log = <<>>
  /\ now = MaxGap
  /\ Fresh
  /\ AppIdle

SpecAuth == InitAuth /\ [][NextAuth]_allVars

\* The same with the scheduling of Streamlit: a script run that was queued
\* by st.rerun() or by a callback is started without waiting for the user.
SpecAuthLive ==
  /\ InitAuth
  /\ [][NextAuth]_allVars
  /\ \A s \in Visitors : WF_allVars(ScriptRerun(s))

\* The session state after a user logged in.
SignedIn(name) ==
  [users |-> {Users}, logged_in |-> "True",
   userdata |-> {u \in Users : u.name = name}, refresh_trigger |-> FALSE]

\* Fetching through the cache: an Admin has the login/logout page open, the
\* roster was fetched at time 0 for that session, a second session is new
\* (its user will log in as QC), and the table grows while they submit,
\* refresh and wait.
InitFetch ==
  /\ filtered_members = {"101"}
  /\ queue_log = <<>>
  /\ now = Day + 1
  /\ Fresh
  /\ session_state = [s \in Sessions |->
                        IF s = "s1" THEN SignedIn("Sara") ELSE FreshSession]
  /\ page_run = [s \in Sessions |->
                   IF s = "s1"
                     THEN [IdleRun("inout") EXCEPT !.view = "load_admin",
                                                   !.sidebar = TRUE]
                     ELSE IdleRun("inout")]
  /\ cache = [fn \in Fns |->
                IF fn = "load_sheet" THEN {[at |-> 0, value |-> Users]} ELSE {}]
  /\ clock = 0
  /\ history = [fn \in Fns |->
                  [last |-> {e.at : e \in cache[fn]}, cleared |-> FALSE,
                   failed |-> FALSE]]
  /\ users_sheet = Users
  /\ form = <<>>

SpecFetch == InitFetch /\ [][NextFetch]_allVars

\* A form of one of the four pages, not yet submitted; no session acts.
InitForm ==
  /\ filtered_members = Agents
  /\ queue_log = <<>>
  /\ now = MaxGap
  /\ Fresh
  /\ session_state = <<>>
  /\ page_run = <<>>
  /\ cache = <<>>
  /\ clock = 0
  /\ history = <<>>
  /\ users_sheet = <<>>
  /\ form \in Forms

SpecForm == InitForm /\ [][NextForm]_allVars

\* ----------------------------------------------------------- properties

\* load_admin ran its off-queue scan in this state.
Rendered == view \in {"shown", "error"}

\* The rows of the fetched frame of one agent on one queue.
PairRows(a, q) ==
  {r \in Range(login_logout_df) : r.agent = a /\ r.queuename = q}

\* The records the scan formed for one agent on one queue.
PairIntervals(a, q) ==
  {iv \in intervals : iv.agent = a /\ iv.queuename = q}

\* The agents that have a row in the fetched frame.
FetchedAgents == Range(AgentColumn(login_logout_df))

\* The result row of an agent, as a set (empty when the agent has none).
ResultsOf(a) == {r \in Range(out_time_results) : r.voip_id = a}

\* A record's length, in_time - out_time.
Length(iv) == iv.in_time - iv.out_time

\* What the cutoff lets a duration add.
GapFiltered(d) == IF d < MaxGap THEN d ELSE 0

\* The records that remain when every REMOVEMEMBER that arrives while an
\* interval is open is deleted: of the records closed by the same ADDMEMBER
\* (or all left open), the one with the earliest REMOVEMEMBER.
EarliestPerClose(ivs) ==
  {iv \in ivs : ~ \E other \in ivs : other.j = iv.j /\ other.i < iv.i}

\* C1: a REMOVEMEMBER that arrives while an interval is already open is a
\* no-op: the off-queue total of an agent on a queue equals the total of the
\* same events with the duplicate REMOVEMEMBER rows deleted.
C1_DuplicateLeaveIsNoOp ==
  Rendered =>
    \A a \in Agents, q \in Queues :
      SumAdded(PairIntervals(a, q)) =
        SumAdded(EarliestPerClose(PairIntervals(a, q)))

\* C2: an interval closed by the next ADDMEMBER of its queue d later adds d
\* to the total when d < 4 hours and 0 when d >= 4 hours; an agent whose only
\* events are one REMOVEMEMBER and, d > 0 later on the same queue, one
\* ADDMEMBER is reported with exactly that amount.
C2_ClosedIntervalGapFiltered ==
  Rendered =>
    /\ \A iv \in intervals :
         iv.j # 0 => iv.added = GapFiltered(Length(iv))
    /\ \A a \in FetchedAgents :
         LET ev == AgentEvents(login_logout_df, a)
         IN (/\ Len(ev) = 2
             /\ ev[1].event = "REMOVEMEMBER"
             /\ ev[2].event = "ADDMEMBER"
             /\ ev[1].queuename = ev[2].queuename
             /\ ev[1].time < ev[2].time)
            => ResultsOf(a) =
                 {[voip_id |-> a,
                   total_out_time |->
                     [kind |-> "int",
                      value |-> GapFiltered(ev[2].time - ev[1].time)]]}

C2_Witness ==
  /\ Rendered
  /\ \E iv1 \in intervals, iv2 \in intervals :
       /\ iv1.j # 0 /\ Length(iv1) = MaxGap /\ iv1.added = 0
       /\ iv2.j # 0 /\ Length(iv2) = MaxGap - 1 /\ iv2.added = MaxGap - 1

\* C3: a REMOVEMEMBER with no later ADDMEMBER on its queue gives an interval
\* closed at now, which adds now - out_time when that is < 4 hours and 0
\* when it is >= 4 hours.
C3_OpenIntervalClosedAtNow ==
  Rendered =>
    /\ \A iv \in intervals :
         iv.j = 0 => /\ iv.in_time = now
                     /\ iv.added = GapFiltered(now - iv.out_time)
    /\ \A a \in FetchedAgents, q \in Queues :
         \A r \in PairRows(a, q) :
           (/\ r.event = "REMOVEMEMBER"
            /\ ~ \E r2 \in PairRows(a, q) :
                   r2.event = "ADDMEMBER" /\ r2.time >= r.time)
           => \E iv \in PairIntervals(a, q) :
                iv.j = 0 /\ iv.out_time = r.time
    /\ \A a \in FetchedAgents :
         LET ev == AgentEvents(login_logout_df, a)
         IN (Len(ev) = 1 /\ ev[1].event = "REMOVEMEMBER" /\ ev[1].time <= now)
            => ResultsOf(a) =
                 {[voip_id |-> a,
                   total_out_time |->
                     [kind |-> "int",
                      value |-> GapFiltered(now - ev[1].time)]]}

C3_Witness ==
  /\ Rendered
  /\ \E iv1 \in intervals, iv2 \in intervals :
       /\ iv1.j = 0 /\ now - iv1.out_time = MaxGap /\ iv1.added = 0
       /\ iv2.j = 0 /\ now - iv2.out_time = MaxGap - 1
       /\ iv2.added = MaxGap - 1

\* C4: the intervals formed for one agent on one queue are pairwise
\* disjoint: no instant lies in two of them.
C4_IntervalsDisjoint ==
  Rendered =>
    \A iv1 \in intervals, iv2 \in intervals :
      (/\ iv1 # iv2
       /\ iv1.agent = iv2.agent
       /\ iv1.queuename = iv2.queuename)
      => \/ iv1.in_time <= iv2.out_time
         \/ iv2.in_time <= iv1.out_time
         \/ iv1.in_time <= iv1.out_time
         \/ iv2.in_time <= iv2.out_time

\* The sum of the per-queue totals of an agent.
RECURSIVE SumOverQueues(_, _)
SumOverQueues(a, qs) ==
  IF qs = {} THEN 0
  ELSE LET q == CHOOSE x \in qs : TRUE
       IN SumAdded(PairIntervals(a, q)) + SumOverQueues(a, qs \ {q})

\* C5: queues are reconstructed independently and their totals are added:
\* every interval of a queue starts at a REMOVEMEMBER of that queue and ends
\* at the first following ADDMEMBER of that same queue (or at now when that
\* queue has none), whatever the other queues' events are; each
\* REMOVEMEMBER gives one interval; the agent's total is the sum of the
\* per-queue totals.
C5_QueuesIndependentAdditive ==
  Rendered =>
    /\ \A iv \in intervals :
         LET rows == PairRows(iv.agent, iv.queuename)
             adds == {r \in rows : r.event = "ADDMEMBER"}
         IN /\ \E r \in rows :
                 r.event = "REMOVEMEMBER" /\ r.time = iv.out_time
            /\ iv.j # 0 =>
                 /\ \E r \in adds : r.time = iv.in_time
                 /\ iv.in_time >= iv.out_time
                 /\ ~ \E r \in adds :
                        iv.out_time < r.time /\ r.time < iv.in_time
            /\ iv.j = 0 =>
                 /\ iv.in_time = now
                 /\ ~ \E r \in adds : r.time > iv.out_time
    /\ \A a \in FetchedAgents, q \in Queues :
         Cardinality(PairIntervals(a, q)) =
           Cardinality({k \in 1..Len(login_logout_df) :
                          /\ login_logout_df[k].agent = a
                          /\ login_logout_df[k].queuename = q
                          /\ login_logout_df[k].event = "REMOVEMEMBER"})
    /\ \A a \in FetchedAgents :
         SumOverQueues(a, Queues) >= 0 =>
           \E r \in ResultsOf(a) :
             /\ r.total_out_time.kind = "int"
             /\ r.total_out_time.value = SumOverQueues(a, Queues) % Day

\* Two queues of one agent off at the same time, both counted.
C5_Witness ==
  /\ Rendered
  /\ \E iv1 \in intervals, iv2 \in intervals :
       /\ iv1.agent = iv2.agent
       /\ iv1.queuename # iv2.queuename
       /\ iv1.added > 0 /\ iv2.added > 0
       /\ iv1.out_time < iv2.in_time /\ iv2.out_time < iv1.in_time
       /\ IntervalsOf(intervals, iv1.agent) = {iv1, iv2}
       /\ \E r \in ResultsOf(iv1.agent) :
            r.total_out_time.value = iv1.added + iv2.added

\* C6: the seconds reported for an agent equal the sum of the counted
\* interval durations, whatever the size of the sum.
C6_ReportedEqualsSum ==
  Rendered =>
    \A a \in FetchedAgents :
      \A r \in ResultsOf(a) :
        r.total_out_time =
          [kind |-> "int", value |-> SumAdded(IntervalsOf(intervals, a))]

\* The rows of an agent (on one queue) that no row of the same agent (and
\* queue) is later than.
LatestOf(rows) == {r \in rows : \A r2 \in rows : r2.time <= r.time}

AgentRows(a) == {r \in Range(login_logout_df) : r.agent = a}

AllDatedToday ==
  \A r \in Range(login_logout_df) : DateOf(r.time) = DateOf(now)

\* No two rows of the fetched frame carry the same time.
DistinctTimes ==
  \A k \in 1..Len(login_logout_df), m \in 1..Len(login_logout_df) :
    k # m => login_logout_df[k].time # login_logout_df[m].time

\* C7: an agent is in line exactly when, on at least one of the agent's
\* queues, the chronologically last event of that queue is ADDMEMBER
\* (stated for frames whose rows are all dated today and differ in time).
C7_InLinePerQueue ==
  (Rendered /\ AllDatedToday /\ DistinctTimes) =>
    \A a \in FetchedAgents :
      /\ a \in in_line_experts =>
           \E q \in Queues :
             \E r \in LatestOf(PairRows(a, q)) : r.event = "ADDMEMBER"
      /\ (\E q \in Queues :
            /\ PairRows(a, q) # {}
            /\ \A r \in LatestOf(PairRows(a, q)) : r.event = "ADDMEMBER")
         => a \in in_line_experts

\* The rows of an agent dated today.
TodayRows(a) == {r \in AgentRows(a) : DateOf(r.time) = DateOf(now)}

\* C8: the in-line list is decided by the events dated today alone: an
\* agent with no event today is not listed, and an agent with events today
\* is listed according to the latest of today's events, whatever events of
\* other dates the frame holds (stated for reports shown in full, of frames
\* whose rows differ in time).
C8_InLineUsesOnlyToday ==
  (view = "shown" /\ DistinctTimes) =>
    \A a \in FetchedAgents :
      /\ TodayRows(a) = {} => a \notin in_line_experts
      /\ (/\ TodayRows(a) # {}
          /\ \A r \in LatestOf(TodayRows(a)) : r.event = "ADDMEMBER")
         => a \in in_line_experts
      /\ (/\ TodayRows(a) # {}
          /\ \A r \in LatestOf(TodayRows(a)) : r.event = "REMOVEMEMBER")
         => a \notin in_line_experts

\* The report ran (with or without rows to show).
ReportRan == view \in {"empty", "shown", "error"}

C10_NoLeaveNoOffQueueTime ==
  Rendered =>
    /\ \A a \in FetchedAgents, q \in Queues :
         (~ \E r \in PairRows(a, q) : r.event = "REMOVEMEMBER")
         => /\ PairIntervals(a, q) = {}
            /\ SumAdded(PairIntervals(a, q)) = 0
    /\ \A a \in FetchedAgents :
         (~ \E r \in AgentRows(a) : r.event = "REMOVEMEMBER")
         => ResultsOf(a) =
              {[voip_id |-> a,
                total_out_time |-> [kind |-> "int", value |-> 0]]}

\* An agent with several ADDMEMBER events at different times and no
\* REMOVEMEMBER is reported with 0.
C10_Witness ==
  /\ view = "shown"
  /\ \E a \in FetchedAgents :
       /\ \A r \in AgentRows(a) : r.event = "ADDMEMBER"
       /\ \E r1 \in AgentRows(a), r2 \in AgentRows(a) :
            r1.queuename = r2.queuename /\ r1.time < r2.time
       /\ \E r \in ResultsOf(a) : r.total_out_time.value = 0

\* The rows of one agent on one queue all differ in time.
PairDistinct(a, q) ==
  Cardinality({k \in 1..Len(login_logout_df) :
                 /\ login_logout_df[k].agent = a
                 /\ login_logout_df[k].queuename = q})
    = Cardinality({r.time : r \in PairRows(a, q)})

\* The ADDMEMBER rows that arrive when no interval is open: no row of the
\* pair is earlier, or the latest earlier row is itself an ADDMEMBER.
SpuriousJoins(rows) ==
  {r \in rows :
     /\ r.event = "ADDMEMBER"
     /\ LET before == {r2 \in rows : r2.time < r.time}
        IN \A r2 \in LatestOf(before) : r2.event = "ADDMEMBER"}

\* The intervals of a set of rows with distinct times, as triples
\* (out_time, in_time, added): each REMOVEMEMBER up to the earliest later
\* ADDMEMBER, or up to now.
ExpectedIntervals(rows) ==
  {LET later == {r2.time : r2 \in {x \in rows : /\ x.event = "ADDMEMBER"
                                                 /\ x.time > r.time}}
       in_time == IF later = {} THEN now
                  ELSE CHOOSE t \in later : \A u \in later : t <= u
   IN <<r.time, in_time, GapFiltered(in_time - r.time)>> :
   r \in {x \in rows : x.event = "REMOVEMEMBER"}}

\* C11: an ADDMEMBER that arrives when no interval is open on its queue
\* adds nothing and does not change the pairing of the other events: the
\* intervals of an agent on a queue are those of the same rows with these
\* ADDMEMBER rows deleted (stated for pairs whose rows differ in time); and
\* the report ends in an error only through a REMOVEMEMBER dated after now,
\* never through an ADDMEMBER.
C11_SpuriousJoinIgnored ==
  Rendered =>
    /\ \A a \in FetchedAgents, q \in Queues :
         PairDistinct(a, q) =>
           {<<iv.out_time, iv.in_time, iv.added>> :
              iv \in PairIntervals(a, q)}
             = ExpectedIntervals(PairRows(a, q)
                                   \ SpuriousJoins(PairRows(a, q)))
    /\ view = "error" =>
         \E iv \in intervals : iv.j = 0 /\ iv.out_time > now

\* A pair that holds an ADDMEMBER after a closed interval (REMOVEMEMBER,
\* ADDMEMBER, ADDMEMBER): the interval is counted with its first ADDMEMBER.
C11_Witness ==
  /\ view = "shown"
  /\ \E a \in FetchedAgents, q \in Queues :
       /\ PairDistinct(a, q)
       /\ \E r \in SpuriousJoins(PairRows(a, q)) :
            \E iv \in PairIntervals(a, q) :
              /\ iv.j # 0
              /\ iv.added > 0
              /\ iv.in_time < r.time

\* Every order in which the query can return the rows of a frame (the
\* query has no ORDER BY).
Reorderings(df) ==
  {[k \in 1..Len(df) |-> df[f[k]]] :
     f \in {g \in [1..Len(df) -> 1..Len(df)] :
              \A k \in 1..Len(df), m \in 1..Len(df) : k # m => g[k] # g[m]}}

\* C12: the off-queue total of an agent does not depend on the order in
\* which the rows were fetched: every order of the same rows, scanned at the
\* same instant, gives each agent the total of this report, also when a
\* REMOVEMEMBER and an ADDMEMBER of one queue carry the same time.  (The
\* sort puts rows of equal time in an order that follows from the order
\* fetched.)
C12_FetchOrderIrrelevant ==
  Rendered =>
    \A p \in Reorderings(login_logout_df) :
      \A ivs \in AllOutcomes(p, OutTimeLoopAgents(p, filtered_members), now) :
        \A a \in FetchedAgents :
          SumAdded(IntervalsOf(ivs, a)) = SumAdded(IntervalsOf(intervals, a))

\* C13: the off-queue seconds of every row of the report are a non-negative
\* integer, whatever the events and the evaluation instant.
C13_SecondsNonNegativeInteger ==
  Rendered =>
    \A n \in 1..Len(out_time_results) :
      /\ out_time_results[n].total_out_time.kind = "int"
      /\ out_time_results[n].total_out_time.value >= 0

\* C14: the rows of the off-queue table are displayed in descending order
\* of their seconds, and they are the rows of the report, each once.
C14_DisplayedDescending ==
  view = "shown" =>
    /\ \A n \in 1..(Len(displayed) - 1) :
         displayed[n].total_out_time.value >=
           displayed[n + 1].total_out_time.value
    /\ Len(displayed) = Len(out_time_results)
    /\ Range(displayed) = Range(out_time_results)

\* Two rows that the report holds in ascending order are displayed in
\* descending order.
C14_Witness ==
  /\ view = "shown"
  /\ Len(out_time_results) = 2
  /\ out_time_results[1].total_out_time.value <
       out_time_results[2].total_out_time.value
  /\ displayed = <<out_time_results[2], out_time_results[1]>>

\* A row that has all four columns.
WellFormed(r) ==
  /\ r.agent # NULL
  /\ r.queuename # NULL
  /\ r.event # NULL
  /\ r.time # NoTime

\* The rows of the table that have all four columns.
WellFormedLog == SelectSeq(queue_log, WellFormed)

\* C16: a row of the table that lacks its agent, queue, time or event kind
\* is dropped and the scan goes on: the fetched frame is the table without
\* these rows, the intervals and the report rows are those the well-formed
\* rows give, and such a row never aborts the report (the report ends in
\* an error only through a REMOVEMEMBER dated after now).
C16_MalformedDropped ==
  ReportRan =>
    /\ login_logout_df = WellFormedLog
    /\ WellFormedLog # <<>> => Rendered
    /\ Rendered =>
         LET agents == OutTimeLoopAgents(WellFormedLog, filtered_members)
         IN /\ intervals \in AllOutcomes(WellFormedLog, agents, now)
            /\ out_time_results = OutTimeResults(intervals, agents)
    /\ view = "error" =>
         \E iv \in intervals : iv.j = 0 /\ iv.out_time > now

\* The table holds a REMOVEMEMBER and, for the same agent and queue, an
\* ADDMEMBER without time: the interval stays open and is closed at now.
C16_Witness ==
  /\ view = "shown"
  /\ \E k \in 1..Len(queue_log) :
       /\ queue_log[k].time = NoTime
       /\ queue_log[k].event = "ADDMEMBER"
       /\ \E iv \in intervals :
            /\ iv.agent = queue_log[k].agent
            /\ iv.queuename = queue_log[k].queuename
            /\ iv.j = 0
            /\ iv.added > 0

\* ------------------------------------------------- properties of sessions

\* The kind of view a roster role is to reach on a page with a switcher.
ViewOfRole(role) ==
  CASE role \in {"Admin", "QC"} -> "load_admin"
    [] role = "Team Manager" -> "load_team_manager"
    [] role = "Supervisor" -> "load_supervisor"
    [] role = "Expert" -> "load_expert"
    [] OTHER -> "invalid_role"

\* The run of session s went through the sidebar with the user logged in
\* and dispatched on the role without failing inside the view.
Dispatched(s) ==
  /\ session_state[s].logged_in = "True"
  /\ page_run[s].sidebar
  /\ page_run[s].page # "home"
  /\ page_run[s].view \notin {"crashed", "stopped"}

\* C19: on every page a logged-in user is dispatched by roster role: Admin
\* and QC reach the admin view, Team Manager, Supervisor and Expert their own
\* views, every other role the invalid-role error; so the same role reaches
\* the same kind of view on every page.
C19_RoleDispatch ==
  \A s \in Sessions :
    Dispatched(s) =>
      \A u \in session_state[s].userdata :
        page_run[s].view = ViewOfRole(u.role)

\* C20: while the logged_in flag of a session is absent or false, its page
\* run invoked no role view, executed no query and produced no report: the
\* run shows the log-in warning, or ended in the sidebar.
C20_NoReportUnlessLoggedIn ==
  \A s \in Sessions :
    session_state[s].logged_in # "True" =>
      /\ page_run[s].view \in {"none", "warning", "stopped"}
      /\ ~page_run[s].queried
      /\ page_run[s].phase = "idle"
      /\ page_run[s].call \subseteq {c \in page_run[s].call : c.fn = "load_sheet"}
      /\ page_run[s].report = NoReport

\* C20 witness: a user who logged in and out again opens the login/logout
\* page and gets the warning.
C20_Witness ==
  \E s \in Sessions :
    /\ session_state[s].logged_in = "False"
    /\ page_run[s].page = "inout"
    /\ page_run[s].view = "warning"

\* ------------------------------------------------ properties of the fetch

\* The report of a run that fetched no row.
ZeroRows ==
  [view |-> "empty", in_line_experts |-> {}, out_time_results |-> <<>>,
   displayed |-> <<>>]

\* C15: when the database call of the event query raises, execute_query lets
\* nothing escape and returns an empty frame, also when logging the error
\* fails, and the page then shows zero rows: no in-line list, no totals.
C15_QueryFailureShowsZeroRows ==
  \A s \in Sessions :
    /\ \A c \in page_run[s].call :
         (c.fn = "execute_query" /\ c.db_failed) =>
           /\ ~c.escaped
           /\ page_run[s].phase = "fetched"
           /\ page_run[s].frame = <<>>
    /\ (page_run[s].phase = "done" /\ page_run[s].frame = <<>>) =>
         page_run[s].report = ZeroRows

\* The calls of cached functions made by the last runs of the sessions.
Calls == UNION {page_run[s].call : s \in Sessions}

\* C17 as stated: a call of execute_query or load_sheet less than 600 seconds
\* after the last fetch returns the stored result without contacting the
\* source, and no result is served more than 600 seconds after its fetch.
C17_CachedWithin600 ==
  \A c \in Calls :
    /\ c.prior_recent => ~c.contacted
    /\ c.age <= TTL

\* C17 amended: a call less than 600 seconds after the last fetch returns
\* the stored result without contacting the source unless the refresh
\* button cleared the cache in between; every other call contacts the
\* source, so that no result is served 600 seconds or more after its fetch.
C17_CachedUntilClearedOrExpired ==
  \A c \in Calls :
    /\ ~c.contacted <=> (c.prior_recent /\ ~c.prior_cleared)
    /\ c.age < TTL

\* C17 witness: a submit is served from the store some time after the
\* fetch.
C17_Witness ==
  \E c \in Calls :
    /\ c.fn = "execute_query"
    /\ ~c.contacted
    /\ c.age > 0

\* C18: the reports of concurrent sessions share no mutable state: whatever
\* the other session does between the fetch of a session and its sections
\* (submit, refresh that clears the cache, a new fetch of a grown table),
\* the frame and the instant of the session stay as fetched, and its report
\* is one that its own frame and its own instant give.
C18_ReportOfOwnFetch ==
  [][\A s \in Sessions :
       page_run[s].phase = "fetched" =>
         /\ page_run'[s].phase \in {"fetched", "done"}
         /\ page_run'[s].frame = page_run[s].frame
         /\ page_run'[s].now = page_run[s].now
         /\ page_run'[s].phase = "done" =>
              page_run'[s].report \in
                Reports(page_run[s].frame, filtered_members, page_run[s].now)
    ]_allVars

\* C18 witness: a session shows the totals of the rows it fetched although
\* the other session pressed refresh, which cleared the cache, between its
\* fetch and its sections.
C18_Witness ==
  \E s \in Sessions :
    /\ page_run[s].phase = "done"
    /\ page_run[s].disturbed
    /\ page_run[s].frame # <<>>
    /\ page_run[s].report.view = "shown"

\* ------------------------------------------- properties of authentication

\* The roster rows of the name chosen in the form whose stored password is
\* the text that was typed.
MatchingRows(ss, widget) ==
  {u \in RosterOf(ss) : u.name = widget.name /\ u.password = widget.password}

\* C21: logged_in of a session becomes true only in a run started by the
\* login button in which the typed password equals the stored password of
\* the roster row of the chosen name, and userdata is then that row; a
\* login with any other password leaves logged_in and userdata as they were.
C21_LoginOnlyByPassword ==
  [][\A s \in Sessions :
       LET before == session_state[s]
           after == session_state'[s]
           widget == page_run'[s].widget
       IN /\ (before.logged_in # "True" /\ after.logged_in = "True") =>
               /\ widget.kind = "login"
               /\ MatchingRows(before, widget) # {}
               /\ after.userdata = MatchingRows(before, widget)
          /\ (page_run'[s] # page_run[s] /\ widget.kind = "login"
                /\ MatchingRows(before, widget) = {}) =>
               /\ after.logged_in = before.logged_in
               /\ after.userdata = before.userdata
    ]_allVars

\* C21 witness: a user has just logged in with the password the roster of
\* the session holds, after the sheet was given another one.
C21_Witness ==
  \E s \in Sessions :
    /\ session_state[s].logged_in = "True"
    /\ page_run[s].widget.kind = "login"
    /\ MatchingRows(session_state[s], page_run[s].widget)
         = session_state[s].userdata
    /\ session_state[s].userdata \cap users_sheet = {}

\* C22: in every reachable state a session with logged_in = True holds a
\* roster row as userdata (not None), so a page run of a logged-in session
\* reads userdata['name'] and userdata['role'] without failing.
C22_LoggedInHasUserdata ==
  \A s \in Sessions :
    session_state[s].logged_in = "True" =>
      /\ \E u \in RosterOf(session_state[s]) : session_state[s].userdata = {u}
      /\ (page_run[s].sidebar /\ page_run[s].page # "home"
            /\ page_run[s].widget.kind # "none") =>
           page_run[s].view # "crashed"

\* C22 witness: the page run of a logged-in expert read the role and
\* dispatched on it.
C22_Witness ==
  \E s \in Sessions :
    /\ session_state[s].logged_in = "True"
    /\ page_run[s].view = "load_expert"

\* C23: a run started by the logout button always ends with logged_in =
\* False and userdata = None, also when writing the audit-log entry of the
\* logout fails.
C23_LogoutAlwaysLogsOut ==
  \A s \in Sessions :
    page_run[s].widget.kind = "logout" =>
      /\ session_state[s].logged_in = "False"
      /\ session_state[s].userdata = {}

\* C24: pressing refresh sets refresh_trigger and queues a run; the run that
\* finds the trigger set resets it and requests one rerun; a queued run that
\* finds it reset completes without requesting another; so the trigger is
\* eventually false with no run queued, and there is no endless rerun loop.
C24_RefreshRerunsOnce ==
  /\ [][\A s \in Sessions :
          LET before == session_state[s]
              after == session_state'[s]
          IN /\ (~before.refresh_trigger /\ after.refresh_trigger) =>
                  page_run'[s].pending
             /\ (page_run[s].pending
                   /\ <<before, page_run[s]>> # <<after, page_run'[s]>>) =>
                  IF before.refresh_trigger
                    THEN ~after.refresh_trigger /\ page_run'[s].pending
                    ELSE ~after.refresh_trigger /\ ~page_run'[s].pending
       ]_allVars
  /\ \A s \in Sessions :
       session_state[s].refresh_trigger
         ~> (~session_state[s].refresh_trigger /\ ~page_run[s].pending)

\* C24 witness: after a refresh cleared the cache, the session has come to
\* rest on its page with the trigger reset.
C24_Witness ==
  \E s \in Sessions :
    /\ history["load_sheet"].cleared
    /\ ~session_state[s].refresh_trigger
    /\ ~page_run[s].pending
    /\ page_run[s].view = "load_admin"

C26_FailureCached ==
  \A s \in Sessions :
    \A c \in page_run[s].call :
      (c.fn = "execute_query" /\ c.prior_failed) =>
        IF c.prior_recent /\ ~c.prior_cleared
          THEN /\ ~c.contacted
               /\ page_run[s].phase = "fetched"
               /\ page_run[s].frame = <<>>
          ELSE c.contacted

\* C26 witness: some time after a failed fetch a submit is served the empty
\* frame from the store although the table has rows.
C26_Witness ==
  \E s \in Sessions :
    \E c \in page_run[s].call :
      /\ c.fn = "execute_query"
      /\ c.prior_failed
      /\ ~c.contacted
      /\ c.age > 0
      /\ page_run[s].frame = <<>>
      /\ ReadSqlQuery(queue_log, filtered_members) # <<>>

\* ----------------------------------------- properties of the filter form

\* The members the team and the expert selection of the form name: those
\* whose team field holds the team as one of its trimmed entries.
Chosen ==
  LET Named(member) ==
        /\ form.team \in Range(Entries(member.team))
        /\ form.expert # "All" => member.name = form.expert
  IN SelectSeq(UsersFrame, Named)

\* The form got past the no-expert warning.
PastWarning == form.phase \in {"query", "raised", "no_leads", "metrics"}

\* C27: on the login/logout page, whenever the filtered members have some
\* VoIP name or id, the query is built without error and its agent list
\* holds exactly one 'Local/<id>@from-queue' entry per VoIP id of the
\* filtered members, also when a member has a VoIP name and the id '-'.
C27_OneLocalEntryPerVoipId ==
  (form.page = "inout" /\ PastWarning) =>
    /\ form.phase = "query"
    /\ Range(form.agents) =
         {Local(id) : id \in Range(voip_ids(form.filtered_members))}
    /\ Len(form.agents) =
         Cardinality(Range(voip_ids(form.filtered_members)))

\* C28: on the calls, surveys and missed-calls pages the agent list of the
\* query equals the set of the VoIP names and ids of the filtered members,
\* a single identifier being one whole element.
C28_AgentListIsVoipSet ==
  (form.page \in {"calls", "surveys", "missed"} /\ PastWarning) =>
    Range(form.agents) =
      Range(voip_names(form.filtered_members))
        \cup Range(voip_ids(form.filtered_members))

\* C29: for dates with start_date <= end_date for which lead calls exist,
\* the calls page computes the average of lead calls per day without
\* raising an error, also when the two dates are equal.
C29_LeadAverageNeverRaises ==
  (/\ form.page = "calls"
   /\ form.start_date <= form.end_date
   /\ form.leads > 0
   /\ form.phase \in {"raised", "metrics"}) =>
    form.phase = "metrics"

\* C30: on every page, a chosen team keeps exactly the members whose
\* pipe-separated team field holds the team as one of its trimmed entries.
C30_TeamKeepsItsMembers ==
  (form.phase # "form" /\ form.team # All) =>
    form.filtered_members = Chosen

====
